---- MODULE Spec2Model ----
(***************************************************************************)
(* The governor of apns2 (dispatch.go): the event loop that owns the pool  *)
(* of streamers and launchers, the launcher tasks, the RetryForwarder and  *)
(* its bufferedForwarder tasks.                                            *)
(*                                                                         *)
(* Goroutines are processes with a position (gpc, lpc, wpc, rfpc, fwd);    *)
(* an unbuffered channel operation is a rendezvous (one action moves both  *)
(* sides), a buffered channel is a bounded queue, a closed channel is a    *)
(* flag.  A launcher and the streamer it constructs share one identifier,  *)
(* the value of nextWId when launchStreamer created the launcher.          *)
(***************************************************************************)
EXTENDS Integers, Sequences, FiniteSets, TLC

\* ------------------------------------------------------------------ bounds

\* Launchers the governor may create in one run (caps nextWId).
MaxWId == 3
\* Ticker events in one run (caps the clock).
MaxTicks == 2
\* Requests the streamers hand to the retry path in one run.
MaxReq == 5
\* ProcCfg.MinConns, and MaxConns - MinConns.
MinConns == 1
ExtraConns == 1
MaxConns == MinConns + ExtraConns
\* ProcCfg durations, in units of one poll interval.
PollInterval == 1
MinSustain == 2
SettlePeriod == 3
\* The wall clock when run() starts; lastScale is the zero time.Time, which
\* lies further in the past than any SettlePeriod.
StartTime == 10
\* Capacity of the Client's retry input.
ClientRetryCap == 1
\* Ticker events in one run of the wait counters (more than MaxUint32 + 1).
CtrTicks == 17

\* --------------------------------------------------------------- constants

\* bufSize := 500 and make(chan *Request, 100) in runRetryForwarder, scaled
\* down so that a full sub-buffer and a full retry channel are reachable.
bufSize == 2
retryCap == 2
\* ^uint32(0), the largest uint32; scaled to 4 bits (the model checker's
\* integers are 32-bit signed), so uint32 arithmetic is modulo MaxUint32 + 1.
MaxUint32 == 15

WIds == 0 .. (MaxWId - 1)
Reqs == 1 .. MaxReq
Scales == {"Constant", "Incremental", "Exponential"}

VARIABLES
    cfg,          \* ProcCfg: MaxRetries, MinConns, MaxConns, Scale, durations
    nonBlocking,  \* governor.nonBlocking
    gpc,          \* governor.run position: init, loop, closeL, closeW, closeDone, stopped
    ctlClosed,    \* governor.ctl has been closed by the parent
    doneCloses,   \* number of close(g.done) executed
    streamers,    \* governor.streamers (set of streamer ids)
    launchers,    \* governor.launchers (set of launcher ids)
    nextWId,      \* governor.nextWId
    inCtr,        \* governor.inCtr
    outCtr,       \* governor.outCtr
    lastScale,    \* governor.lastScale
    isClosing,    \* governor.isClosing
    now,          \* time.Now() at the governor's next look at the clock (start, then each tick)
    scaleLog,     \* history: times of the scaling actions, most recent last (at most 2 kept)
    lpc,          \* launcher position: idle, start, post, returned
    lworker,      \* launcher.worker != nil
    lctlClosed,   \* launcher.ctl closed
    wpc,          \* streamer position: idle, run, post, exited
    wflags,       \* streamer.inClosed, streamer.didQuit
    wctlClosed,   \* streamer.ctl closed
    rfpc,         \* runRetryForwarder position: idle, start, select, send, returned, stopped
    rfreq,        \* the request runRetryForwarder holds while at buf <- req
    retryMade,    \* governor.retry has been allocated (it is nil before)
    retry,        \* governor.retry contents
    cnt,          \* runRetryForwarder's cnt
    bufs,         \* the sub-buffers allocated so far; the last one is buf
    fwd,          \* bufferedForwarder tasks, one per sub-buffer: pc and held request
    clientRetry,  \* Client.retry contents
    sentCnt,      \* history: how often each request was sent on Client.retry
    nextReq,      \* next request a streamer will hand to the retry path
    inRun,        \* history: sign and length of the current run of inbound samples
    outRun,       \* history: sign and length of the current run of outbound samples
    lastEval,     \* history: the last result of updateCountersAndEvalScaling
    gate          \* history: the last application of allowedScaleDelta by Gate

govState == <<streamers, launchers, nextWId, inCtr, outCtr, isClosing>>
govVars == <<gpc, doneCloses, streamers, launchers, nextWId, inCtr, outCtr,
             lastScale, isClosing, scaleLog>>
taskVars == <<lpc, lworker, lctlClosed, wpc, wflags, wctlClosed>>
retryVars == <<rfpc, rfreq, retryMade, retry, cnt, bufs, fwd, clientRetry,
               sentCnt, nextReq>>
histVars == <<inRun, outRun, lastEval, gate>>
vars == <<cfg, nonBlocking, ctlClosed, now, govVars, taskVars, retryVars, histVars>>

\* ---------------------------------------------------------- pure functions

\* Scale.Apply and Scale.ApplyInverse on uint32 (Constant, Incremental,
\* Exponential).
Apply(scale, n) ==
    CASE scale = "Constant" -> n
      [] scale = "Incremental" -> (n + 1) % (MaxUint32 + 1)
      [] scale = "Exponential" -> IF n = 0 THEN 1 ELSE (2 * n) % (MaxUint32 + 1)

ApplyInverse(scale, n) ==
    CASE scale = "Constant" -> n
      [] scale = "Incremental" -> IF n = 0 THEN 0 ELSE n - 1
      [] scale = "Exponential" -> n \div 2

\* ProcCfg.minSustainPollPeriods
minSustainPollPeriods(c) ==
    IF c.MinSustain <= 0 \/ c.PollInterval <= 0
    THEN MaxUint32
    ELSE LET res == c.MinSustain \div c.PollInterval
         IN  (IF c.MinSustain % c.PollInterval > 0 THEN res + 1 ELSE res)
                 % (MaxUint32 + 1)

\* governor.minSust, set from the configuration when the governor is built
minSust == minSustainPollPeriods(cfg)

\* waitCounter.acc
acc(c, val) ==
    IF val > 0
    THEN [waits |-> (c.waits + 1) % (MaxUint32 + 1), noWaits |-> 0]
    ELSE [waits |-> 0, noWaits |-> (c.noWaits + 1) % (MaxUint32 + 1)]

\* The decision of updateCountersAndEvalScaling on the updated counters.
evalScaling(in, out) ==
    IF in.waits >= minSust /\ out.noWaits >= minSust THEN 1
    ELSE IF in.noWaits >= minSust THEN -1
    ELSE 0

forScaleUp == TRUE
forWindDown == FALSE

\* req clamped into [MinConns, MaxConns], as at the end of allowedScaleDelta
clamp(req) ==
    LET r == IF req < cfg.MinConns THEN cfg.MinConns ELSE req
    IN  IF r > cfg.MaxConns THEN cfg.MaxConns ELSE r

\* Mutant: the request is not clamped into [MinConns, MaxConns].
allowedScaleDelta_NoClamp(up) ==
    IF isClosing THEN 0
    ELSE IF lastScale + cfg.SettlePeriod > now THEN 0
    ELSE IF ~nonBlocking /\ Cardinality(launchers) > 0 THEN 0
    ELSE LET prov == (Cardinality(streamers) + Cardinality(launchers))
                         % (MaxUint32 + 1)
         IN  IF up
             THEN IF prov >= cfg.MaxConns THEN 0
                  ELSE Apply(cfg.Scale, prov) - prov
             ELSE IF prov <= cfg.MinConns THEN 0
                  ELSE ApplyInverse(cfg.Scale, prov) - prov

\* governor.allowedScaleDelta
allowedScaleDelta(up) ==
    IF isClosing THEN 0
    ELSE IF lastScale + cfg.SettlePeriod > now THEN 0
    ELSE IF ~nonBlocking /\ Cardinality(launchers) > 0 THEN 0
    ELSE LET prov == (Cardinality(streamers) + Cardinality(launchers))
                         % (MaxUint32 + 1)
         IN  IF up
             THEN IF prov >= cfg.MaxConns THEN 0
                  ELSE clamp(Apply(cfg.Scale, prov)) - prov
             ELSE IF prov <= cfg.MinConns THEN 0
                  ELSE clamp(ApplyInverse(cfg.Scale, prov)) - prov

\* governor.tryScaleUp: the number of launchStreamer calls it makes.
tryScaleUp ==
    LET delta == allowedScaleDelta(forScaleUp)
    IN  IF delta <= 0 THEN 0 ELSE delta

\* governor.tryWindDown: not implemented, stops no streamer.
tryWindDown == 0

\* governor.launchStreamer called n times: the launchers it creates.
launchStreamer(n) == nextWId .. (nextWId + n - 1)

\* Mutant: the test does not look at the launchers.
loopEnd_NoLaunchers(closing, str, lau) ==
    IF closing /\ str = {} THEN "closeL" ELSE "loop"

\* The test that ends an iteration of run's loop (done is false before it).
loopEnd(closing, str, lau) ==
    IF closing /\ str = {} /\ lau = {} THEN "closeL" ELSE "loop"

\* Streamers blocked on wExits whose receipt makes the governor relaunch.
pendingQuits == Cardinality({w \in WIds : wpc[w] = "post" /\ wflags[w].didQuit})

\* New entry in the history of scaling actions (the last two are kept).
logScale(t) ==
    IF Len(scaleLog) < 2 THEN Append(scaleLog, t) ELSE <<scaleLog[2], t>>

\* ------------------------------------------------------------------- Init

\* The governor as constructed, before run() is called.
Start ==
    /\ gpc = "init"
    /\ ctlClosed = FALSE
    /\ doneCloses = 0
    /\ streamers = {}
    /\ launchers = {}
    /\ nextWId = 0
    /\ inCtr = [waits |-> 0, noWaits |-> 0]
    /\ outCtr = [waits |-> 0, noWaits |-> 0]
    /\ lastScale = 0
    /\ isClosing = FALSE
    /\ now = StartTime
    /\ scaleLog = <<>>
    /\ lpc = [l \in WIds |-> "idle"]
    /\ lworker = [l \in WIds |-> FALSE]
    /\ lctlClosed = [l \in WIds |-> FALSE]
    /\ wpc = [w \in WIds |-> "idle"]
    /\ wflags = [w \in WIds |-> [inClosed |-> FALSE, didQuit |-> FALSE]]
    /\ wctlClosed = [w \in WIds |-> FALSE]
    /\ rfpc = "idle"
    /\ rfreq = 0
    /\ retryMade = FALSE
    /\ retry = <<>>
    /\ cnt = 0
    /\ bufs = <<>>
    /\ fwd = <<>>
    /\ clientRetry = <<>>
    /\ sentCnt = [r \in Reqs |-> 0]
    /\ nextReq = 1
    /\ inRun = [pos |-> FALSE, len |-> 0]
    /\ outRun = [pos |-> FALSE, len |-> 0]
    /\ lastEval = 0
    /\ gate = [called |-> FALSE, up |-> FALSE, d |-> 0]

\* The configurations of cfg with the given retry limits and scale policies.
Cfgs(maxRetries, scales) ==
    [MaxRetries : maxRetries, MinConns : {MinConns}, MaxConns : {MaxConns},
     Scale : scales, MinSustain : {MinSustain}, PollInterval : {PollInterval},
     SettlePeriod : {SettlePeriod}]

\* The pool under every scale policy, in blocking and non-blocking mode;
\* retrying is disabled.
Init ==
    /\ cfg \in Cfgs({0}, Scales)
    /\ nonBlocking \in BOOLEAN
    /\ Start

\* The retry path with retrying disabled and enabled, over a pool that
\* launches one streamer at a time.
RetryInit ==
    /\ cfg \in Cfgs({0, 1}, {"Incremental"})
    /\ nonBlocking = FALSE
    /\ Start

\* MinSustain, in poll intervals: invalid, one, two, and as many as a uint32
\* cannot hold.
CtrSustains == {0, 1, 2, MaxUint32 + 1}

\* The wait counters under each MinSustain, over a pool that launches one
\* streamer at a time.
CtrInit ==
    /\ cfg \in [MaxRetries : {0}, MinConns : {MinConns}, MaxConns : {MaxConns},
                Scale : {"Incremental"}, MinSustain : CtrSustains,
                PollInterval : {PollInterval}, SettlePeriod : {SettlePeriod}]
    /\ nonBlocking = FALSE
    /\ Start

\* Pool limits with MinConns <= MaxConns, and the values of lastScale: the
\* zero time, and one poll interval before now.
GateConns == 1 .. MaxWId
GateLastScales == {0, StartTime - PollInterval}

\* The governor in its loop, in any state of the fields allowedScaleDelta
\* reads: every pool of at most MaxWId streamers and launchers, closing or
\* not, within the settle period or not.
GateInit ==
    /\ cfg \in {c \in [MaxRetries : {0}, MinConns : GateConns, MaxConns : GateConns,
                        Scale : Scales, MinSustain : {MinSustain},
                        PollInterval : {PollInterval},
                        SettlePeriod : {SettlePeriod}] : c.MinConns <= c.MaxConns}
    /\ nonBlocking \in BOOLEAN
    /\ isClosing \in BOOLEAN
    /\ lastScale \in GateLastScales
    /\ streamers \in SUBSET WIds
    /\ launchers \in SUBSET (WIds \ streamers)
    /\ gpc = "loop"
    /\ ctlClosed = FALSE
    /\ doneCloses = 0
    /\ nextWId = MaxWId
    /\ inCtr = [waits |-> 0, noWaits |-> 0]
    /\ outCtr = [waits |-> 0, noWaits |-> 0]
    /\ now = StartTime
    /\ scaleLog = <<>>
    /\ lpc = [l \in WIds |-> IF l \in launchers THEN "start"
                             ELSE IF l \in streamers THEN "returned" ELSE "idle"]
    /\ lworker = [l \in WIds |-> l \in streamers]
    /\ lctlClosed = [l \in WIds |-> FALSE]
    /\ wpc = [w \in WIds |-> IF w \in streamers THEN "run" ELSE "idle"]
    /\ wflags = [w \in WIds |-> [inClosed |-> FALSE, didQuit |-> FALSE]]
    /\ wctlClosed = [w \in WIds |-> FALSE]
    /\ rfpc = "start"
    /\ rfreq = 0
    /\ retryMade = FALSE
    /\ retry = <<>>
    /\ cnt = 0
    /\ bufs = <<>>
    /\ fwd = <<>>
    /\ clientRetry = <<>>
    /\ sentCnt = [r \in Reqs |-> 0]
    /\ nextReq = 1
    /\ inRun = [pos |-> FALSE, len |-> 0]
    /\ outRun = [pos |-> FALSE, len |-> 0]
    /\ lastEval = 0
    /\ gate = [called |-> FALSE, up |-> FALSE, d |-> 0]

\* --------------------------------------------------------------- governor

\* allowedScaleDelta(up) applied to the governor's fields; it changes none.
Gate(up) ==
    /\ gpc = "loop"
    /\ gate' = [called |-> TRUE, up |-> up, d |-> allowedScaleDelta(up)]
    /\ UNCHANGED <<cfg, nonBlocking, inRun, outRun, lastEval, ctlClosed, now,
                   govVars, taskVars, retryVars>>

\* run, up to the loop: make the channels and maps, go runRetryForwarder,
\* the first tryScaleUp, the ticker.
GovStart ==
    /\ gpc = "init"
    /\ LET n == tryScaleUp
       IN  /\ nextWId + n <= MaxWId
           /\ launchers' = launchers \cup launchStreamer(n)
           /\ nextWId' = nextWId + n
           /\ lpc' = [l \in WIds |-> IF l \in launchStreamer(n) THEN "start" ELSE lpc[l]]
           /\ scaleLog' = IF n > 0 THEN logScale(now) ELSE scaleLog
    /\ rfpc' = "start"
    /\ gpc' = "loop"
    /\ now' = now + cfg.PollInterval
    /\ UNCHANGED <<cfg, nonBlocking, histVars, ctlClosed, doneCloses, streamers, inCtr, outCtr,
                   lastScale, isClosing, lworker, lctlClosed, wpc, wflags, wctlClosed,
                   rfreq, retryMade, retry, cnt, bufs, fwd, clientRetry, sentCnt, nextReq>>

\* case l := <-g.lExits (the launcher's send completes in the same step)
LExit(l) ==
    /\ gpc = "loop"
    /\ lpc[l] = "post"
    /\ lpc' = [lpc EXCEPT ![l] = "returned"]
    /\ launchers' = launchers \ {l}
    /\ streamers' = IF lworker[l] THEN streamers \cup {l} ELSE streamers
    /\ gpc' = loopEnd(isClosing, streamers', launchers')
    /\ UNCHANGED <<cfg, nonBlocking, histVars, ctlClosed, doneCloses, nextWId, inCtr, outCtr,
                   lastScale, isClosing, now, scaleLog, lworker, lctlClosed, wpc,
                   wflags, wctlClosed, retryVars>>

\* Mutant: isClosing is assigned w.inClosed instead of being latched.
WExit_NoLatch(w) ==
    /\ gpc = "loop"
    /\ wpc[w] = "post"
    /\ wpc' = [wpc EXCEPT ![w] = "exited"]
    /\ isClosing' = wflags[w].inClosed
    /\ streamers' = streamers \ {w}
    /\ LET n == IF wflags[w].didQuit THEN 1 ELSE 0
       IN  /\ nextWId + n <= MaxWId
           /\ launchers' = launchers \cup launchStreamer(n)
           /\ nextWId' = nextWId + n
           /\ lpc' = [l \in WIds |-> IF l \in launchStreamer(n) THEN "start" ELSE lpc[l]]
    /\ gpc' = loopEnd(isClosing', streamers', launchers')
    /\ wflags' = [wflags EXCEPT ![w] = [inClosed |-> FALSE, didQuit |-> FALSE]]
    /\ UNCHANGED <<cfg, nonBlocking, histVars, ctlClosed, doneCloses, inCtr, outCtr, lastScale,
                   now, scaleLog, lworker, lctlClosed, wctlClosed, retryVars>>

\* case w := <-g.wExits (the streamer's send completes in the same step)
WExit(w) ==
    /\ gpc = "loop"
    /\ wpc[w] = "post"
    \* the streamer returns; nothing reads its flags after this iteration
    /\ wpc' = [wpc EXCEPT ![w] = "exited"]
    /\ isClosing' = (isClosing \/ wflags[w].inClosed)
    /\ streamers' = streamers \ {w}
    /\ LET n == IF wflags[w].didQuit THEN 1 ELSE 0
       IN  /\ nextWId + n <= MaxWId
           /\ launchers' = launchers \cup launchStreamer(n)
           /\ nextWId' = nextWId + n
           /\ lpc' = [l \in WIds |-> IF l \in launchStreamer(n) THEN "start" ELSE lpc[l]]
    /\ gpc' = loopEnd(isClosing', streamers', launchers')
    /\ wflags' = [wflags EXCEPT ![w] = [inClosed |-> FALSE, didQuit |-> FALSE]]
    /\ UNCHANGED <<cfg, nonBlocking, histVars, ctlClosed, doneCloses, inCtr, outCtr, lastScale,
                   now, scaleLog, lworker, lctlClosed, wctlClosed, retryVars>>

\* The run of samples after one more sample of the given sign.
run(r, pos) ==
    IF r.len > 0 /\ r.pos = pos THEN [pos |-> pos, len |-> r.len + 1]
    ELSE [pos |-> pos, len |-> 1]

\* case <-tkrChan, with the two Fold samples ics and ocs as inputs, for a
\* run of at most maxTicks ticker events
TickWithin(maxTicks, ics, ocs) ==
    /\ gpc = "loop"
    /\ cfg.PollInterval > 0
    /\ now <= StartTime + maxTicks * cfg.PollInterval
    /\ streamers = {} => ocs = 0
    /\ IF isClosing
       THEN UNCHANGED <<inCtr, outCtr, launchers, nextWId, lpc, scaleLog,
                        inRun, outRun, lastEval>>
       ELSE /\ inCtr' = acc(inCtr, ics)
            /\ outCtr' = acc(outCtr, ocs)
            /\ inRun' = run(inRun, ics > 0)
            /\ outRun' = run(outRun, ocs > 0)
            /\ LET s == evalScaling(inCtr', outCtr')
                   n == IF s > 0 THEN tryScaleUp ELSE 0
                   k == IF s < 0 THEN tryWindDown ELSE 0
               IN  /\ lastEval' = s
                   /\ nextWId + n + pendingQuits <= MaxWId
                   /\ launchers' = launchers \cup launchStreamer(n)
                   /\ nextWId' = nextWId + n
                   /\ lpc' = [l \in WIds |->
                                IF l \in launchStreamer(n) THEN "start" ELSE lpc[l]]
                   /\ scaleLog' = IF n > 0 \/ k > 0 THEN logScale(now) ELSE scaleLog
    /\ gpc' = loopEnd(isClosing, streamers, launchers')
    /\ now' = now + cfg.PollInterval
    /\ UNCHANGED <<cfg, nonBlocking, gate, ctlClosed, doneCloses, streamers, lastScale,
                   isClosing, lworker, lctlClosed, wpc, wflags, wctlClosed, retryVars>>

\* case <-tkrChan in a run of at most MaxTicks ticker events
Tick(ics, ocs) == TickWithin(MaxTicks, ics, ocs)

\* case <-g.ctl: hard stop
HardStop ==
    /\ gpc = "loop"
    /\ ctlClosed
    /\ gpc' = "closeL"
    /\ UNCHANGED <<cfg, nonBlocking, histVars, ctlClosed, now, doneCloses, streamers, launchers,
                   nextWId, inCtr, outCtr, lastScale, isClosing, scaleLog, taskVars,
                   retryVars>>

\* Mutant: the loop over g.launchers is left out.
CloseLaunchers_Skipped ==
    /\ gpc = "closeL"
    /\ gpc' = "closeW"
    /\ UNCHANGED <<cfg, nonBlocking, histVars, ctlClosed, now, doneCloses, streamers,
                   launchers, nextWId, inCtr, outCtr, lastScale, isClosing, scaleLog,
                   taskVars, retryVars>>

\* for i := range g.launchers { close(i.ctl) }
CloseLaunchers ==
    /\ gpc = "closeL"
    /\ lctlClosed' = [l \in WIds |-> lctlClosed[l] \/ l \in launchers]
    /\ gpc' = "closeW"
    /\ UNCHANGED <<cfg, nonBlocking, histVars, ctlClosed, now, doneCloses, streamers, launchers,
                   nextWId, inCtr, outCtr, lastScale, isClosing, scaleLog, lpc, lworker,
                   wpc, wflags, wctlClosed, retryVars>>

\* Mutant: the loop over g.streamers is left out.
CloseStreamers_Skipped ==
    /\ gpc = "closeW"
    /\ gpc' = "closeDone"
    /\ UNCHANGED <<cfg, nonBlocking, histVars, ctlClosed, now, doneCloses, streamers, launchers,
                   nextWId, inCtr, outCtr, lastScale, isClosing, scaleLog, taskVars,
                   retryVars>>

\* for i := range g.streamers { close(i.ctl) }
CloseStreamers ==
    /\ gpc = "closeW"
    /\ wctlClosed' = [w \in WIds |-> wctlClosed[w] \/ w \in streamers]
    /\ gpc' = "closeDone"
    /\ UNCHANGED <<cfg, nonBlocking, histVars, ctlClosed, now, doneCloses, streamers, launchers,
                   nextWId, inCtr, outCtr, lastScale, isClosing, scaleLog, lpc, lworker,
                   lctlClosed, wpc, wflags, retryVars>>

\* close(g.done)
CloseDone ==
    /\ gpc = "closeDone"
    /\ doneCloses' = doneCloses + 1
    /\ gpc' = "stopped"
    /\ UNCHANGED <<cfg, nonBlocking, histVars, ctlClosed, now, streamers, launchers, nextWId,
                   inCtr, outCtr, lastScale, isClosing, scaleLog, taskVars, retryVars>>

\* The parent closes the governor's ctl.
Stop ==
    /\ ~ctlClosed
    /\ ctlClosed' = TRUE
    /\ UNCHANGED <<cfg, nonBlocking, histVars, now, govVars, taskVars, retryVars>>

\* --------------------------------------------------- launchers, streamers

\* launcher.launch up to its select: construct the streamer and start it;
\* ok is the outcome of w.start(nil).
LauncherStart(l, ok) ==
    /\ lpc[l] = "start"
    /\ lpc' = [lpc EXCEPT ![l] = "post"]
    /\ lworker' = [lworker EXCEPT ![l] = ok]
    /\ wpc' = [wpc EXCEPT ![l] = IF ok THEN "run" ELSE "idle"]
    /\ UNCHANGED <<cfg, nonBlocking, histVars, ctlClosed, now, govVars, lctlClosed, wflags,
                   wctlClosed, retryVars>>

\* launcher.launch, case <-l.ctl of its select: the post is abandoned.
LauncherAbandon(l) ==
    /\ lpc[l] = "post"
    /\ lctlClosed[l]
    /\ lpc' = [lpc EXCEPT ![l] = "returned"]
    /\ UNCHANGED <<cfg, nonBlocking, histVars, ctlClosed, now, govVars, lworker, lctlClosed,
                   wpc, wflags, wctlClosed, retryVars>>

\* A running streamer leaves its run loop and posts itself on wExits,
\* carrying inClosed and didQuit.
StreamerQuit(w, inClosed, didQuit) ==
    /\ wpc[w] = "run"
    /\ didQuit => nextWId + pendingQuits + 1 <= MaxWId
    /\ wpc' = [wpc EXCEPT ![w] = "post"]
    /\ wflags' = [wflags EXCEPT ![w] = [inClosed |-> inClosed, didQuit |-> didQuit]]
    /\ UNCHANGED <<cfg, nonBlocking, histVars, ctlClosed, now, govVars, lpc, lworker, lctlClosed,
                   wctlClosed, retryVars>>

\* A running streamer sends a retriable request on g.retry.  A send on the
\* nil channel (before runRetryForwarder allocates it, or ever when it does
\* not) blocks, so there is no step.
StreamerRetry(w) ==
    /\ wpc[w] = "run"
    /\ retryMade
    /\ Len(retry) < retryCap
    /\ nextReq <= MaxReq
    /\ retry' = Append(retry, nextReq)
    /\ nextReq' = nextReq + 1
    /\ UNCHANGED <<cfg, nonBlocking, histVars, ctlClosed, now, govVars, taskVars, rfpc, rfreq,
                   retryMade, cnt, bufs, fwd, clientRetry, sentCnt>>

\* ---------------------------------------------------------- retry forwarder

\* Mutant: the MaxRetries == 0 test is left out.
RFStart_NoCheck ==
    /\ rfpc = "start"
    /\ rfpc' = "select"
    /\ retryMade' = TRUE
    /\ cnt' = 0
    /\ UNCHANGED <<cfg, nonBlocking, histVars, ctlClosed, now, govVars, taskVars, rfreq, retry,
                   bufs, fwd, clientRetry, sentCnt, nextReq>>

\* runRetryForwarder up to its loop
RFStart ==
    /\ rfpc = "start"
    /\ IF cfg.MaxRetries = 0
       THEN /\ rfpc' = "returned"
            /\ UNCHANGED <<retryMade, cnt>>
       ELSE /\ rfpc' = "select"
            /\ retryMade' = TRUE
            /\ cnt' = 0
    /\ UNCHANGED <<cfg, nonBlocking, histVars, ctlClosed, now, govVars, taskVars, rfreq, retry,
                   bufs, fwd, clientRetry, sentCnt, nextReq>>

\* case req := <-g.retry, up to the send buf <- req: the rotation test,
\* close(buf), the new sub-buffer and its bufferedForwarder.
RFRecv ==
    /\ rfpc = "select"
    /\ retry # <<>>
    /\ rfreq' = Head(retry)
    /\ retry' = Tail(retry)
    /\ rfpc' = "send"
    /\ IF bufs = <<>> \/ cnt >= bufSize
       THEN /\ bufs' = Append(
                  [b \in 1 .. Len(bufs) |->
                     IF b = Len(bufs) THEN [bufs[b] EXCEPT !.closed = TRUE] ELSE bufs[b]],
                  [q |-> <<>>, closed |-> FALSE, recv |-> 0])
            /\ fwd' = Append(fwd, [pc |-> "select", req |-> 0])
            /\ cnt' = 0
       ELSE UNCHANGED <<bufs, fwd, cnt>>
    /\ UNCHANGED <<cfg, nonBlocking, histVars, ctlClosed, now, govVars, taskVars, retryMade,
                   clientRetry, sentCnt, nextReq>>

\* buf <- req completes once the sub-buffer has room
RFSend ==
    /\ rfpc = "send"
    /\ Len(bufs[Len(bufs)].q) < bufSize
    /\ bufs' = [bufs EXCEPT ![Len(bufs)] =
                  [@ EXCEPT !.q = Append(@, rfreq), !.recv = @ + 1]]
    /\ rfreq' = 0
    /\ rfpc' = "select"
    /\ UNCHANGED <<cfg, nonBlocking, histVars, ctlClosed, now, govVars, taskVars, retryMade,
                   retry, cnt, fwd, clientRetry, sentCnt, nextReq>>

\* case <-g.ctl
RFStop ==
    /\ rfpc = "select"
    /\ ctlClosed
    /\ rfpc' = "stopped"
    /\ UNCHANGED <<cfg, nonBlocking, histVars, ctlClosed, now, govVars, taskVars, rfreq,
                   retryMade, retry, cnt, bufs, fwd, clientRetry, sentCnt, nextReq>>

\* bufferedForwarder b, case req, ok := <-in: a request of the sub-buffer,
\* or !ok once the sub-buffer is closed and drained
BFRecv(b) ==
    /\ b \in 1 .. Len(fwd)
    /\ fwd[b].pc = "select"
    /\ bufs[b].q # <<>> \/ bufs[b].closed
    /\ IF bufs[b].q # <<>>
       THEN /\ fwd' = [fwd EXCEPT ![b] = [pc |-> "send", req |-> Head(bufs[b].q)]]
            /\ bufs' = [bufs EXCEPT ![b].q = Tail(@)]
       ELSE /\ fwd' = [fwd EXCEPT ![b] = [pc |-> "done", req |-> 0]]
            /\ UNCHANGED bufs
    /\ UNCHANGED <<cfg, nonBlocking, histVars, ctlClosed, now, govVars, taskVars, rfpc, rfreq,
                   retryMade, retry, cnt, clientRetry, sentCnt, nextReq>>

\* Mutant: the request is dropped when the Client's retry input is full.
BFSend_Drop(b) ==
    /\ b \in 1 .. Len(fwd)
    /\ fwd[b].pc = "send"
    /\ IF Len(clientRetry) < ClientRetryCap
       THEN /\ clientRetry' = Append(clientRetry, fwd[b].req)
            /\ sentCnt' = [sentCnt EXCEPT ![fwd[b].req] = @ + 1]
       ELSE UNCHANGED <<clientRetry, sentCnt>>
    /\ fwd' = [fwd EXCEPT ![b] = [pc |-> "select", req |-> 0]]
    /\ UNCHANGED <<cfg, nonBlocking, histVars, ctlClosed, now, govVars, taskVars, rfpc,
                   rfreq, retryMade, retry, cnt, bufs, nextReq>>

\* bufferedForwarder b, case client.retry <- req
BFSend(b) ==
    /\ b \in 1 .. Len(fwd)
    /\ fwd[b].pc = "send"
    /\ Len(clientRetry) < ClientRetryCap
    /\ clientRetry' = Append(clientRetry, fwd[b].req)
    /\ sentCnt' = [sentCnt EXCEPT ![fwd[b].req] = @ + 1]
    /\ fwd' = [fwd EXCEPT ![b] = [pc |-> "select", req |-> 0]]
    /\ UNCHANGED <<cfg, nonBlocking, histVars, ctlClosed, now, govVars, taskVars, rfpc, rfreq,
                   retryMade, retry, cnt, bufs, nextReq>>

\* bufferedForwarder b, case <-ctl of either select
BFStop(b) ==
    /\ b \in 1 .. Len(fwd)
    /\ fwd[b].pc \in {"select", "send"}
    /\ ctlClosed
    /\ fwd' = [fwd EXCEPT ![b] = [pc |-> "done", req |-> 0]]
    /\ UNCHANGED <<cfg, nonBlocking, histVars, ctlClosed, now, govVars, taskVars, rfpc, rfreq,
                   retryMade, retry, cnt, bufs, clientRetry, sentCnt, nextReq>>

\* The Client takes a request from its retry input.
ClientRecvRetry ==
    /\ clientRetry # <<>>
    /\ clientRetry' = Tail(clientRetry)
    /\ UNCHANGED <<cfg, nonBlocking, histVars, ctlClosed, now, govVars, taskVars, rfpc, rfreq,
                   retryMade, retry, cnt, bufs, fwd, sentCnt, nextReq>>

\* ---------------------------------------------------------- specifications

\* The pool: the governor's loop, the launchers and the streamers' exits.
Next ==
    \/ GovStart
    \/ \E l \in WIds : LExit(l)
    \/ \E w \in WIds : WExit(w)
    \/ \E ics \in {0, 1}, ocs \in {0, 1} : Tick(ics, ocs)
    \/ HardStop
    \/ CloseLaunchers
    \/ CloseStreamers
    \/ CloseDone
    \/ Stop
    \/ \E l \in WIds, ok \in BOOLEAN : LauncherStart(l, ok)
    \/ \E l \in WIds : LauncherAbandon(l)
    \/ \E w \in WIds, inClosed \in BOOLEAN, didQuit \in BOOLEAN :
          StreamerQuit(w, inClosed, didQuit)

Spec == Init /\ [][Next]_vars

\* The retry path: the governor from start to stop over a pool whose
\* streamers keep running, the streamers' retries, runRetryForwarder, the
\* bufferedForwarders and the Client's retry input.
RetryNext ==
    \/ GovStart
    \/ \E l \in WIds : LExit(l)
    \/ HardStop
    \/ CloseLaunchers
    \/ CloseStreamers
    \/ CloseDone
    \/ Stop
    \/ \E l \in WIds, ok \in BOOLEAN : LauncherStart(l, ok)
    \/ \E l \in WIds : LauncherAbandon(l)
    \/ \E w \in WIds : StreamerRetry(w)
    \/ RFStart
    \/ RFRecv
    \/ RFSend
    \/ RFStop
    \/ \E b \in Reqs : BFRecv(b)
    \/ \E b \in Reqs : BFSend(b)
    \/ \E b \in Reqs : BFStop(b)
    \/ ClientRecvRetry

RetrySpec == RetryInit /\ [][RetryNext]_vars

\* The wait counters: the governor's ticks over a pool whose launches
\* succeed and whose streamers keep running, for a run of CtrTicks ticker
\* events.
CtrNext ==
    \/ GovStart
    \/ \E l \in WIds : LExit(l)
    \/ \E l \in WIds : LauncherStart(l, TRUE)
    \/ \E ics \in {0, 1}, ocs \in {0, 1} : TickWithin(CtrTicks, ics, ocs)

CtrSpec == CtrInit /\ [][CtrNext]_vars

\* allowedScaleDelta as a function of the governor's fields.
GateNext == \E up \in {forScaleUp, forWindDown} : Gate(up)

GateSpec == GateInit /\ [][GateNext]_vars

\* Scheduling of the pool: a goroutine that can take a step takes it, and a
\* select with a ready case that stays ready takes it (Go picks among the
\* ready cases uniformly at random).  The parent's Stop, the ticker and
\* the streamers' exits are not forced.
PoolFairness ==
    /\ WF_vars(GovStart)
    /\ \A l \in WIds : WF_vars(LExit(l))
    /\ \A w \in WIds : WF_vars(WExit(w))
    /\ WF_vars(HardStop)
    /\ WF_vars(CloseLaunchers)
    /\ WF_vars(CloseStreamers)
    /\ WF_vars(CloseDone)
    /\ \A l \in WIds : WF_vars(\E ok \in BOOLEAN : LauncherStart(l, ok))
    /\ \A l \in WIds : WF_vars(LauncherAbandon(l))

FairSpec == Spec /\ PoolFairness

\* Scheduling of the retry path: runRetryForwarder and the
\* bufferedForwarders take the steps they can take.  The Client is not
\* forced to drain its retry input, nor the streamers to retry.
RetryFairness ==
    /\ WF_vars(RFStart)
    /\ WF_vars(RFRecv)
    /\ WF_vars(RFSend)
    /\ SF_vars(RFStop)
    /\ \A b \in Reqs : WF_vars(BFRecv(b))
    /\ \A b \in Reqs : WF_vars(BFSend(b))
    /\ \A b \in Reqs : WF_vars(BFStop(b))

FairRetrySpec == RetrySpec /\ PoolFairness /\ RetryFairness

\* FairRetrySpec, and the Client keeps taking requests from its retry
\* input.
ClientDrainSpec == FairRetrySpec /\ WF_vars(ClientRecvRetry)

\* FairSpec, and every running streamer eventually reports its exit.
DrainSpec ==
    /\ FairSpec
    /\ \A w \in WIds :
          WF_vars(\E inClosed \in BOOLEAN, didQuit \in BOOLEAN :
                     StreamerQuit(w, inClosed, didQuit))

\* ------------------------------------------------------------------ claims

prov == Cardinality(streamers) + Cardinality(launchers)

\* C1: in every reachable state of the governor's loop the provisioned count
\* |streamers| + |launchers| is at most MaxConns.
C1_UpperPoolBound == prov <= cfg.MaxConns

\* C2: once the first tryScaleUp has run, while isClosing is false and no
\* hard stop has been received, |streamers| + |launchers| >= MinConns at the
\* end of every iteration of the loop.
C2_LowerPoolBound == (gpc = "loop" /\ ~isClosing) => prov >= cfg.MinConns

\* C3: once a streamer exit with inClosed has been delivered (isClosing is
\* latched), and with every streamer and launcher reporting its exit, the
\* governor closes done, unless a hard stop comes first.
C3_GracefulDrain == isClosing ~> (doneCloses > 0 \/ ctlClosed)

\* C4: after ctl is closed the governor leaves its loop and closes done;
\* done is closed only after the control channel of every launcher in
\* launchers and of every streamer in streamers is closed, and only once.
C4_HardStop ==
    /\ ctlClosed ~> (gpc = "stopped" /\ doneCloses = 1)
    /\ [](doneCloses > 0 =>
            /\ \A l \in launchers : lctlClosed[l]
            /\ \A w \in streamers : wctlClosed[w])
    /\ [](doneCloses <= 1)

\* A hard stop that found a launcher and a streamer registered.
C4_Witness ==
    ctlClosed /\ doneCloses = 1 /\ launchers # {} /\ streamers # {} /\ ~isClosing

\* C5: isClosing never goes back to false, and once done is closed
\* streamers, launchers, nextWId, inCtr, outCtr and isClosing never change.
C5_ClosingLatch ==
    [][/\ isClosing => isClosing'
       /\ doneCloses > 0 => govState' = govState]_vars

\* The governor was draining when it was stopped, done is closed, and a
\* streamer is still posting its exit.
C5_Witness ==
    doneCloses > 0 /\ isClosing /\ \E w \in WIds : wpc[w] = "post"

\* C6: lastScale is the time of the last scaling action, no scaling action
\* happens before lastScale + SettlePeriod, and two consecutive scaling
\* actions are at least SettlePeriod apart.
C6_SettlePeriod ==
    /\ scaleLog # <<>> => lastScale = scaleLog[Len(scaleLog)]
    /\ scaleLog # <<>> => scaleLog[Len(scaleLog)] >= lastScale + cfg.SettlePeriod
    /\ Len(scaleLog) = 2 => scaleLog[2] - scaleLog[1] >= cfg.SettlePeriod

\* C7: with MaxRetries = 0 runRetryForwarder returns without allocating the
\* retry channel or a sub-buffer, no bufferedForwarder exists and nothing
\* is ever sent on the Client's retry channel.
C7_RetryDisabled ==
    cfg.MaxRetries = 0 =>
        /\ rfpc \in {"idle", "start", "returned"}
        /\ ~retryMade
        /\ retry = <<>>
        /\ bufs = <<>>
        /\ fwd = <<>>
        /\ clientRetry = <<>>
        /\ \A r \in Reqs : sentCnt[r] = 0

\* runRetryForwarder has returned at once and a streamer is running.
C7_Witness ==
    cfg.MaxRetries = 0 /\ rfpc = "returned" /\ \E w \in WIds : wpc[w] = "run"

\* C8: no sub-buffer receives more than bufSize items in total, and at most
\* one sub-buffer is open at any time.
C8_SubBufferRotation ==
    /\ \A b \in 1 .. Len(bufs) : bufs[b].recv <= bufSize
    /\ Cardinality({b \in 1 .. Len(bufs) : ~bufs[b].closed}) <= 1

\* C9: while ctl is open runRetryForwarder does not stay blocked at
\* buf <- req, and every request in the retry channel is received by it,
\* also when nobody drains the Client's retry input.
C9_RetryNeverBlocks ==
    /\ (rfpc = "send") ~> (rfpc # "send" \/ ctlClosed)
    /\ \A r \in Reqs :
          (\E i \in 1 .. Len(retry) : retry[i] = r)
             ~> ((\A i \in 1 .. Len(retry) : retry[i] # r) \/ ctlClosed)

\* C10: after ctl is closed runRetryForwarder and every bufferedForwarder
\* terminate.
C10_RetryTasksStop ==
    ctlClosed ~> (/\ rfpc \in {"returned", "stopped"}
                  /\ \A b \in 1 .. Len(fwd) : fwd[b].pc = "done")

\* C11: after a tick that sampled, updateCountersAndEvalScaling returned +1
\* iff inCtr.waits >= minSust and outCtr.noWaits >= minSust, -1 iff
\* inCtr.noWaits >= minSust, 0 otherwise; it returned +1 only if each of the
\* last minSust ticks sampled a non-zero inbound and a zero outbound fold;
\* and the +1 and -1 conditions are never both true.
C11_ScalingDecision ==
    inRun.len > 0 =>
        LET up == inCtr.waits >= minSust /\ outCtr.noWaits >= minSust
            down == inCtr.noWaits >= minSust
        IN  /\ lastEval = 1 <=> up
            /\ lastEval = -1 <=> down
            /\ lastEval = 0 <=> (~up /\ ~down)
            /\ lastEval = 1 => /\ inRun.pos /\ inRun.len >= minSust
                               /\ ~outRun.pos /\ outRun.len >= minSust
            /\ ~(up /\ down)

\* C12: after any acc, exactly one of waits and noWaits is zero, and the
\* other is the number of most recent consecutive samples of the same sign.
C12_WaitCounter ==
    inRun.len > 0 =>
        /\ (inCtr.waits = 0) # (inCtr.noWaits = 0)
        /\ (outCtr.waits = 0) # (outCtr.noWaits = 0)
        /\ inCtr = IF inRun.pos THEN [waits |-> inRun.len, noWaits |-> 0]
                   ELSE [waits |-> 0, noWaits |-> inRun.len]
        /\ outCtr = IF outRun.pos THEN [waits |-> outRun.len, noWaits |-> 0]
                    ELSE [waits |-> 0, noWaits |-> outRun.len]

\* C13: allowedScaleDelta returns 0 when isClosing, within the settle period,
\* with a launcher in flight in blocking mode, for scale-up at prov >=
\* MaxConns and for scale-down at prov <= MinConns; otherwise its result d
\* has MinConns <= prov + d <= MaxConns, d >= 0 for scale-up and d <= 0 for
\* scale-down.
C13_ScaleGating ==
    gate.called =>
        LET d == gate.d
            gated == \/ isClosing
                     \/ lastScale + cfg.SettlePeriod > now
                     \/ ~nonBlocking /\ launchers # {}
                     \/ gate.up /\ prov >= cfg.MaxConns
                     \/ ~gate.up /\ prov <= cfg.MinConns
        IN  IF gated THEN d = 0
            ELSE /\ cfg.MinConns <= prov + d
                 /\ prov + d <= cfg.MaxConns
                 /\ gate.up => d >= 0
                 /\ ~gate.up => d <= 0

\* A scale-up whose request the clamp cut down to MaxConns.
C13_Witness ==
    /\ gate.called /\ gate.up /\ gate.d > 0
    /\ Apply(cfg.Scale, prov) > cfg.MaxConns
    /\ prov + gate.d = cfg.MaxConns

\* C14: the iteration that handles a streamer exit with didQuit removes the
\* streamer and creates exactly one launcher, so |streamers| + |launchers|
\* is unchanged; a streamer exit without didQuit and a launcher exit that
\* carries no worker create no launcher.
C14_GapFill ==
    [][/\ \A w \in WIds :
             (wpc[w] = "post" /\ wpc'[w] = "exited") =>
                 IF wflags[w].didQuit
                 THEN /\ w \notin streamers'
                      /\ nextWId' = nextWId + 1
                      /\ Cardinality(launchers') = Cardinality(launchers) + 1
                      /\ prov' = prov
                 ELSE nextWId' = nextWId /\ launchers' = launchers
       /\ \A l \in WIds :
             (lpc[l] = "post" /\ lpc'[l] = "returned" /\ ~lworker[l]) =>
                 nextWId' = nextWId /\ launchers' \subseteq launchers]_vars

\* C15: a launcher's post ends either by the governor's receipt on lExits,
\* which happens once, or by being abandoned, and it is abandoned only if
\* the governor has closed the launcher's control channel; once the governor
\* has terminated every launcher returns, none stays blocked on lExits.
C15_LauncherHandOff ==
    /\ [][\A l \in WIds :
             (lpc[l] = "post" /\ lpc'[l] # "post") =>
                 /\ lpc'[l] = "returned"
                 /\ \/ l \in launchers /\ l \notin launchers' /\ gpc = "loop"
                    \/ lctlClosed[l] /\ launchers' = launchers]_vars
    /\ [][\A l \in WIds : lpc[l] = "returned" => lpc'[l] = "returned"]_vars
    /\ (gpc = "stopped") ~> (\A l \in WIds : lpc[l] \in {"idle", "returned"})

\* The governor has stopped and a launcher that was in launchers has
\* abandoned its post and returned.
C15_Witness ==
    /\ gpc = "stopped"
    /\ \E l \in launchers : lpc[l] = "returned" /\ lctlClosed[l]
    /\ \A l \in WIds : lpc[l] \in {"idle", "returned"}

\* C16: if done is closed while ctl is open, isClosing is true and both
\* streamers and launchers are empty, and no launcher is pending and no
\* streamer is running or posting its exit.
C16_GracefulTermination ==
    (doneCloses > 0 /\ ~ctlClosed) =>
        /\ isClosing
        /\ streamers = {}
        /\ launchers = {}
        /\ \A l \in WIds : lpc[l] \in {"idle", "returned"}
        /\ \A w \in WIds : wpc[w] \in {"idle", "exited"}

\* The governor has drained two streamers and closed done, ctl being open.
C16_Witness ==
    /\ doneCloses > 0 /\ ~ctlClosed /\ isClosing
    /\ Cardinality({w \in WIds : wpc[w] = "exited"}) >= 2

\* C17: every entry of streamers is a streamer that has not yet delivered
\* its exit on wExits.
C17_NoGhostStreamer == \A w \in streamers : wpc[w] # "exited"

\* C18: when the governor closes done, the control channel of every
\* streamer that was started and has not reported its exit is closed.
C18_NoStreamerLeaked ==
    [][doneCloses' > doneCloses =>
          \A w \in WIds : wpc[w] \in {"run", "post"} => wctlClosed[w]]_vars

\* C19: once isClosing is true the governor creates no launcher.
C19_NoLaunchWhileClosing ==
    [][isClosing => nextWId' = nextWId /\ launchers' \subseteq launchers]_vars

====
